---- MODULE Spec2Model ----
(***************************************************************************)
(* TopicStreams scraper: the scrape-cycle orchestrator of                  *)
(* src/scraper/main.py (main, _dedup_entries, _add_to_seen_entries).      *)
(*                                                                         *)
(* Spec      : the process main(), one action per statement group, with    *)
(*             every call able to return, raise an ordinary Exception or   *)
(*             be hit by a KeyboardInterrupt.                              *)
(* SpecCache : the two module-level cache functions driven directly, in    *)
(*             the order main() calls them (filter, then record), over     *)
(*             arbitrary batches, so that every cache content is reached.  *)
(***************************************************************************)
EXTENDS Integers, Sequences, FiniteSets, TLC

\* ------------------------------------------------------------------ bounds
\* Longest list one scrape_news call returns.
MaxEntriesPerScrape == 2
\* Longest batch handed to _dedup_entries in SpecCache.
MaxBatch == 3
\* Longest time one scrape_news call takes, in seconds.
MaxScrapeTime == 1
\* Cycles after which the model stops starting new ones.
MaxCycles == 2

\* _MAX_SEEN_ENTRIES, src/scraper/main.py:50.  The program's value is 25000;
\* the model keeps the comparison (strictly greater) and scales the number so
\* that the sizes below, at and above it are all reached.
MAX_SEEN_ENTRIES == 2

\* ------------------------------------------------------------ data universe
None == "None"

\* NewsEntry: topic, title, source (or None) and an opaque payload field.
NewsEntry(t, ti, s, l) == [topic |-> t, title |-> ti, source |-> s, link |-> l]

\* Topics storage may hold.
TopicUniverse == {"t1", "t2", "t3"}

\* Entries the extraction may return: two that differ in the payload only,
\* and one differing from the first in each component of the signature.
EntryUniverse ==
    { NewsEntry("t1", "A", "s1", "l1"),
      NewsEntry("t1", "A", "s1", "l2"),
      NewsEntry("t1", "B", "s1", "l1"),
      NewsEntry("t1", "A", None, "l1"),
      NewsEntry("t2", "A", "s1", "l1") }

\* settings.scrape_interval: any integer, zero and negative included.
ScrapeIntervals == {-1, 0, 2}

Range(s) == {s[i] : i \in 1..Len(s)}

SeqsUpTo(S, n) == UNION {[1..k -> S] : k \in 0..n}

Max(a, b) == IF a >= b THEN a ELSE b

\* ------------------------------------------------------------ cache functions
\* signature = (entry.topic, entry.title, entry.source)
Signature(entry) == <<entry.topic, entry.title, entry.source>>

SignaturesOf(entries) == {Signature(entries[i]) : i \in 1..Len(entries)}

\* The loop with seen.add(signature) forgotten: only the cache filters.
RECURSIVE DedupLoop_NoSeenAdd(_, _, _, _, _)
DedupLoop_NoSeenAdd(entries, i, res, seen, cache) ==
    IF i > Len(entries) THEN res
    ELSE LET signature == Signature(entries[i]) IN
         IF signature \in seen \/ signature \in cache
         THEN DedupLoop_NoSeenAdd(entries, i + 1, res, seen, cache)
         ELSE DedupLoop_NoSeenAdd(entries, i + 1, Append(res, entries[i]),
                                  seen, cache)

\* The loop of _dedup_entries from entry i on, with the accumulators res, seen.
RECURSIVE DedupLoop(_, _, _, _, _)
DedupLoop(entries, i, res, seen, cache) ==
    IF i > Len(entries) THEN res
    ELSE LET signature == Signature(entries[i]) IN
         IF signature \in seen \/ signature \in cache
         THEN DedupLoop(entries, i + 1, res, seen, cache)
         ELSE DedupLoop(entries, i + 1, Append(res, entries[i]),
                        seen \cup {signature}, cache)

\* _dedup_entries(entries), reading the global _seen_entries (cache).
dedup_entries(entries, cache) == DedupLoop(entries, 1, <<>>, {}, cache)

\* The size test written >= instead of >.
add_to_seen_entries_ClearAtBound(entries, cache) ==
    (IF Cardinality(cache) >= MAX_SEEN_ENTRIES THEN {} ELSE cache)
        \cup SignaturesOf(entries)

\* The clean-up left out.
add_to_seen_entries_NoClear(entries, cache) == cache \cup SignaturesOf(entries)

\* The batch is not added: only the clean-up is done.
add_to_seen_entries_Forgets(entries, cache) ==
    IF Cardinality(cache) > MAX_SEEN_ENTRIES THEN {} ELSE cache

\* The size test off by one: the clean-up comes one entry late.
add_to_seen_entries_LateClear(entries, cache) ==
    (IF Cardinality(cache) > MAX_SEEN_ENTRIES + 1 THEN {} ELSE cache)
        \cup SignaturesOf(entries)

\* _add_to_seen_entries(entries): the new value of the global _seen_entries.
add_to_seen_entries(entries, cache) ==
    (IF Cardinality(cache) > MAX_SEEN_ENTRIES THEN {} ELSE cache)
        \cup SignaturesOf(entries)

\* ------------------------------------------------------------------- state
VARIABLES
    pc,             \* position of main() (or of the cache driver)
    browser,        \* "none", "open" or "closed"
    close_count,    \* calls of browser.close()
    open_pages,     \* pages created and not yet closed
    pages_created,  \* calls of context.new_page() that returned
    seen_entries,   \* the global _seen_entries
    fetched,        \* the topics db.get_topics() returned this cycle
    topics,         \* the shuffled list
    idx,            \* position of the for loop in topics
    all_entries,    \* accumulator of the cycle
    all_logs,       \* accumulator of the cycle (one record per scrape)
    new_entries,    \* result of _dedup_entries
    cycle_success,
    cycle_start,
    now,            \* time.time()
    elapsed,        \* local of main(): unbound until line 154 has run
    reported,       \* the elapsed value the outcome line printed
    sleep_time,
    interval,       \* settings.scrape_interval
    db_news,        \* entries handed to insert_news_entries calls that returned
    db_logs,        \* records handed to insert_scraper_logs calls that returned
    insert_calls,   \* insert_news_entries calls of this cycle that returned
    cycle,          \* cycles started
    outcome,        \* "none", "Success" or "Failed": how the try of this cycle ended
    fault_kind,     \* the exception raised inside the try of this cycle
    fault_at,       \* the step that raised it
    raised,         \* the exception that left main(), "none" if none did
    raised_at,      \* the step that raised it
    cache_at_start, \* _seen_entries when this cycle started
    db_at_start,    \* db_news when this cycle started
    seen_before,    \* _seen_entries when _add_to_seen_entries was last called
    last_added,     \* the batch _add_to_seen_entries was last called with
    steps,          \* the calls of this cycle that returned, in order
    handed,         \* signatures handed to insert_news_entries calls that
                    \* returned, since the cache last lost a signature
    max_added,      \* size of the largest batch _add_to_seen_entries was given
    api_pc,         \* position of the API application in lifespan()
    listener,       \* the WebSocket listener: "idle", "running", "stopping"
                    \* or "stopped"
    pool,           \* the database connection pool: "open" or "closed"
    responses,      \* status codes of the responses the application sent
    api_steps       \* the calls of lifespan() that returned, in order

browserVars == <<browser, close_count, open_pages, pages_created>>
cacheVars == <<seen_entries, seen_before, last_added>>
cycleVars == <<fetched, topics, idx, all_entries, all_logs, new_entries, cycle_success>>
timeVars == <<cycle_start, now, elapsed, reported, sleep_time, interval>>
dbVars == <<db_news, db_logs, insert_calls>>
ctlVars ==
    <<pc, cycle, outcome, fault_kind, fault_at, raised, raised_at,
      cache_at_start, db_at_start>>
ghostVars == <<steps, handed, max_added>>
mainVars == <<browserVars, cacheVars, cycleVars, timeVars, dbVars, ctlVars, ghostVars>>
apiVars == <<api_pc, listener, pool, responses, api_steps>>
vars == <<mainVars, apiVars>>

\* settings.max_pages, the page budget handed to scrape_news (its default).
max_pages == 1

\* One entry of steps: the call, its topic ("" when it has none) and the page
\* budget it was given (0 when it has none).
Step(op, topic, pages) == [op |-> op, topic |-> topic, pages |-> pages]

\* A local that has not been assigned yet, and one that holds v.
Unbound == [bound |-> FALSE, val |-> 0]
Bound(v) == [bound |-> TRUE, val |-> v]

\* What a call can do: return, raise an ordinary exception, or be interrupted.
Outcomes == {"ok", "Exception", "KeyboardInterrupt"}

\* What the extraction may return for a topic: entries of that topic.
ScrapeResults(topic) ==
    SeqsUpTo({e \in EntryUniverse : e.topic = topic}, MaxEntriesPerScrape)

\* A shuffle that leaves the list in the one order storage gave it.
Shuffle_KeepsOrder(S) ==
    {CHOOSE s \in [1..Cardinality(S) -> S] : Range(s) = S}

\* shuffle(topics): every order of the fetched topics.
Shuffle(S) == {s \in [1..Cardinality(S) -> S] : Range(s) = S}

Init ==
    /\ pc = "launch"
    /\ browser = "none" /\ close_count = 0 /\ open_pages = 0 /\ pages_created = 0
    /\ seen_entries = {} /\ seen_before = {} /\ last_added = <<>>
    /\ fetched = {} /\ topics = <<>> /\ idx = 1
    /\ all_entries = <<>> /\ all_logs = <<>> /\ new_entries = <<>>
    /\ cycle_success = FALSE
    /\ cycle_start = 0 /\ now = 0 /\ elapsed = Unbound /\ reported = Unbound
    /\ sleep_time = 0
    /\ interval \in ScrapeIntervals
    /\ db_news = <<>> /\ db_logs = <<>> /\ insert_calls = 0
    /\ cycle = 0 /\ outcome = "none"
    /\ fault_kind = "none" /\ fault_at = "none"
    /\ raised = "none" /\ raised_at = "none"
    /\ cache_at_start = {} /\ db_at_start = <<>>
    /\ steps = <<>> /\ handed = {} /\ max_added = 0
    /\ api_pc = "none" /\ listener = "idle" /\ pool = "open"
    /\ responses = <<>> /\ api_steps = <<>>

\* ------------------------------------------------------- exception routing
\* Per-topic isolation: an exception of a topic's processing is swallowed and
\* the cycle goes on to filter and persist what it has.
ExceptClause_PerTopic(kind, at) ==
    IF kind = "KeyboardInterrupt" THEN "except_interrupt"
    ELSE IF at \in {"new_page", "stealth", "scrape"} THEN "dedup"
    ELSE "except_exception"

\* The except clauses of the inner try (lines 141-147) for an exception of
\* this kind raised at this step.
ExceptClause(kind, at) ==
    IF kind = "KeyboardInterrupt" THEN "except_interrupt" ELSE "except_exception"

\* A step inside the inner try raises.
Raise(kind, at) ==
    /\ fault_kind' = kind /\ fault_at' = at
    /\ pc' = ExceptClause(kind, at)
    /\ UNCHANGED <<cycle, outcome, raised, raised_at, cache_at_start, db_at_start>>

\* browser.close() placed after the loop instead of in a finally: an escaping
\* exception does not pass through it.
Escape_SkipsFinally(kind, at) ==
    /\ raised' = kind /\ raised_at' = at
    /\ pc' = "done"
    /\ UNCHANGED <<cycle, outcome, fault_kind, fault_at, cache_at_start, db_at_start>>

\* A step outside the inner try raises: the exception unwinds through the
\* finally of line 165 and leaves main().
Escape(kind, at) ==
    /\ raised' = kind /\ raised_at' = at
    /\ pc' = "finally"
    /\ UNCHANGED <<cycle, outcome, fault_kind, fault_at, cache_at_start, db_at_start>>

Proceed(next) ==
    /\ pc' = next
    /\ UNCHANGED <<cycle, outcome, fault_kind, fault_at, raised, raised_at,
                   cache_at_start, db_at_start>>

\* ------------------------------------------------------------------ main()
\* lines 81-89: p.chromium.launch(...), before the outer try.
Launch ==
    /\ pc = "launch"
    /\ \E r \in Outcomes :
        IF r = "ok"
        THEN /\ browser' = "open"
             /\ Proceed("new_context")
        ELSE /\ browser' = browser
             /\ raised' = r /\ raised_at' = "launch"
             /\ pc' = "done"
             /\ UNCHANGED <<cycle, outcome, fault_kind, fault_at,
                            cache_at_start, db_at_start>>
    /\ UNCHANGED <<close_count, open_pages, pages_created>>
    /\ UNCHANGED <<cacheVars, cycleVars, timeVars, dbVars>>
    /\ UNCHANGED ghostVars
    /\ UNCHANGED apiVars

\* A failed context creation treated like a failed cycle: recorded, and the
\* loop is entered all the same.
NewContext_LogsAndContinues ==
    /\ pc = "new_context"
    /\ \E r \in Outcomes :
        IF r = "ok" THEN Proceed("cycle_start")
        ELSE /\ raised' = r /\ raised_at' = "new_context"
             /\ pc' = "cycle_start"
             /\ UNCHANGED <<cycle, outcome, fault_kind, fault_at,
                            cache_at_start, db_at_start>>
    /\ UNCHANGED <<browserVars, cacheVars, cycleVars, timeVars, dbVars>>
    /\ UNCHANGED ghostVars
    /\ UNCHANGED apiVars

\* lines 92-109: browser.new_context(...), Stealth().
NewContext ==
    /\ pc = "new_context"
    /\ \E r \in Outcomes :
        IF r = "ok" THEN Proceed("cycle_start") ELSE Escape(r, "new_context")
    /\ UNCHANGED <<browserVars, cacheVars, cycleVars, timeVars, dbVars>>
    /\ UNCHANGED ghostVars
    /\ UNCHANGED apiVars

\* lines 111-113: while True: cycle_start, cycle_success = time.time(), False
CycleStart ==
    /\ pc = "cycle_start"
    /\ cycle < MaxCycles
    /\ \E r \in {"ok", "KeyboardInterrupt"} :
        IF r = "ok"
        THEN /\ cycle_start' = now
             /\ cycle_success' = FALSE
             /\ cycle' = cycle + 1
             /\ outcome' = "none"
             /\ cache_at_start' = seen_entries
             /\ db_at_start' = db_news
             /\ insert_calls' = 0
             /\ fault_kind' = "none" /\ fault_at' = "none"
             /\ pc' = "get_topics"
             /\ steps' = <<>>
             /\ UNCHANGED <<raised, raised_at>>
        ELSE /\ Escape(r, "cycle_start")
             /\ UNCHANGED <<cycle_start, cycle_success, insert_calls, steps>>
    /\ UNCHANGED <<handed, max_added>>
    /\ UNCHANGED <<browserVars, cacheVars, db_news, db_logs>>
    /\ UNCHANGED <<fetched, topics, idx, all_entries, all_logs, new_entries>>
    /\ UNCHANGED <<now, elapsed, reported, sleep_time, interval>>
    /\ UNCHANGED apiVars

\* lines 114-119: get_topics, shuffle, empty accumulators, start of the for.
GetTopics ==
    /\ pc = "get_topics"
    /\ \E r \in Outcomes :
        IF r = "ok"
        THEN \E got \in SUBSET TopicUniverse : \E order \in Shuffle(got) :
                /\ fetched' = got
                /\ topics' = order
                /\ all_entries' = <<>> /\ all_logs' = <<>>
                /\ idx' = 1
                /\ steps' = Append(steps, Step("get_topics", "", 0))
                /\ Proceed(IF Len(order) = 0 THEN "dedup" ELSE "new_page")
        ELSE /\ Raise(r, "get_topics")
             /\ UNCHANGED <<fetched, topics, all_entries, all_logs, idx, steps>>
    /\ UNCHANGED <<handed, max_added>>
    /\ UNCHANGED <<new_entries, cycle_success>>
    /\ UNCHANGED <<browserVars, cacheVars, timeVars, dbVars>>
    /\ UNCHANGED apiVars

\* line 122: page = context.new_page()
NewPage ==
    /\ pc = "new_page"
    /\ \E r \in Outcomes :
        IF r = "ok"
        THEN /\ open_pages' = open_pages + 1
             /\ pages_created' = pages_created + 1
             /\ steps' = Append(steps, Step("new_page", topics[idx], 0))
             /\ Proceed("stealth")
        ELSE /\ Raise(r, "new_page")
             /\ UNCHANGED <<open_pages, pages_created, steps>>
    /\ UNCHANGED <<handed, max_added>>
    /\ UNCHANGED <<browser, close_count>>
    /\ UNCHANGED <<cacheVars, cycleVars, timeVars, dbVars>>
    /\ UNCHANGED apiVars

\* line 123: stealth.apply_stealth_sync(page), before the try of line 124:
\* when it raises, the finally of line 130 is not in force.
ApplyStealth ==
    /\ pc = "stealth"
    /\ \E r \in Outcomes :
        IF r = "ok" THEN Proceed("scrape") ELSE Raise(r, "stealth")
    /\ UNCHANGED <<browserVars, cacheVars, cycleVars, timeVars, dbVars>>
    /\ UNCHANGED ghostVars
    /\ UNCHANGED apiVars

\* lines 124-131: scrape_news, extend the accumulators; finally page.close().
Scrape ==
    /\ pc = "scrape"
    /\ \E r \in Outcomes : \E d \in 0..MaxScrapeTime :
        /\ now' = now + d
        /\ IF r = "ok"
           THEN \E entries \in ScrapeResults(topics[idx]) :
                    /\ all_entries' = all_entries \o entries
                    /\ all_logs' = Append(all_logs, topics[idx])
                    /\ idx' = idx + 1
                    /\ steps' = Append(steps, Step("scrape", topics[idx], max_pages))
                    /\ Proceed(IF idx + 1 > Len(topics) THEN "dedup" ELSE "new_page")
           ELSE /\ Raise(r, "scrape")
                /\ UNCHANGED <<all_entries, all_logs, idx, steps>>
    /\ open_pages' = open_pages - 1
    /\ UNCHANGED <<handed, max_added>>
    /\ UNCHANGED <<browser, close_count, pages_created>>
    /\ UNCHANGED <<fetched, topics, new_entries, cycle_success>>
    /\ UNCHANGED <<cycle_start, elapsed, reported, sleep_time, interval>>
    /\ UNCHANGED <<cacheVars, dbVars>>
    /\ UNCHANGED apiVars

\* Line 133 with a filter that marks what it keeps as seen.
Dedup_MarksSeen ==
    /\ pc = "dedup"
    /\ \E r \in {"ok", "KeyboardInterrupt"} :
        IF r = "ok"
        THEN /\ new_entries' = dedup_entries(all_entries, seen_entries)
             /\ seen_entries' = seen_entries \cup SignaturesOf(new_entries')
             /\ steps' = Append(steps, Step("dedup", "", 0))
             /\ Proceed("insert")
        ELSE /\ Raise(r, "dedup")
             /\ UNCHANGED <<new_entries, steps, seen_entries>>
    /\ UNCHANGED <<handed, max_added, seen_before, last_added>>
    /\ UNCHANGED <<fetched, topics, idx, all_entries, all_logs, cycle_success>>
    /\ UNCHANGED <<browserVars, timeVars, dbVars>>
    /\ UNCHANGED apiVars

\* lines 133-134: new_entries = _dedup_entries(all_entries)
Dedup ==
    /\ pc = "dedup"
    /\ \E r \in {"ok", "KeyboardInterrupt"} :
        IF r = "ok"
        THEN /\ new_entries' = dedup_entries(all_entries, seen_entries)
             /\ steps' = Append(steps, Step("dedup", "", 0))
             /\ Proceed("insert")
        ELSE /\ Raise(r, "dedup")
             /\ UNCHANGED <<new_entries, steps>>
    /\ UNCHANGED <<handed, max_added>>
    /\ UNCHANGED <<fetched, topics, idx, all_entries, all_logs, cycle_success>>
    /\ UNCHANGED <<browserVars, cacheVars, timeVars, dbVars>>
    /\ UNCHANGED apiVars

\* Lines 136 and 137 swapped: the batch is recorded as seen before the insert
\* is attempted.
InsertNews_RecordsFirst ==
    /\ pc = "insert"
    /\ seen_before' = seen_entries
    /\ last_added' = new_entries
    /\ seen_entries' = add_to_seen_entries(new_entries, seen_entries)
    /\ \E r \in Outcomes :
        IF r = "ok"
        THEN /\ db_news' = db_news \o new_entries
             /\ insert_calls' = insert_calls + 1
             /\ Proceed("insert_logs")
        ELSE /\ Raise(r, "insert")
             /\ UNCHANGED <<db_news, insert_calls>>
    /\ UNCHANGED db_logs
    /\ UNCHANGED <<browserVars, cycleVars, timeVars>>
    /\ UNCHANGED ghostVars
    /\ UNCHANGED apiVars

\* line 136: db.insert_news_entries(new_entries)
InsertNews ==
    /\ pc = "insert"
    /\ \E r \in Outcomes :
        IF r = "ok"
        THEN /\ db_news' = db_news \o new_entries
             /\ insert_calls' = insert_calls + 1
             /\ steps' = Append(steps, Step("insert", "", 0))
             /\ handed' = handed \cup SignaturesOf(new_entries)
             /\ Proceed("add_seen")
        ELSE /\ Raise(r, "insert")
             /\ UNCHANGED <<db_news, insert_calls, steps, handed>>
    /\ UNCHANGED max_added
    /\ UNCHANGED db_logs
    /\ UNCHANGED <<browserVars, cacheVars, cycleVars, timeVars>>
    /\ UNCHANGED apiVars

\* Line 137 handed the unfiltered accumulator instead of the filtered batch.
AddToSeen_RecordsUnfiltered ==
    /\ pc = "add_seen"
    /\ \E r \in {"ok", "KeyboardInterrupt"} :
        IF r = "ok"
        THEN /\ seen_before' = seen_entries
             /\ last_added' = all_entries
             /\ seen_entries' = add_to_seen_entries(all_entries, seen_entries)
             /\ steps' = Append(steps, Step("add_seen", "", 0))
             /\ handed' = IF seen_entries \subseteq seen_entries'
                          THEN handed ELSE SignaturesOf(all_entries)
             /\ max_added' = Max(max_added, Len(all_entries))
             /\ Proceed("insert_logs")
        ELSE /\ Raise(r, "add_seen")
             /\ UNCHANGED <<cacheVars, ghostVars>>
    /\ UNCHANGED <<browserVars, cycleVars, timeVars, dbVars>>
    /\ UNCHANGED apiVars

\* line 137: _add_to_seen_entries(new_entries)
AddToSeen ==
    /\ pc = "add_seen"
    /\ \E r \in {"ok", "KeyboardInterrupt"} :
        IF r = "ok"
        THEN /\ seen_before' = seen_entries
             /\ last_added' = new_entries
             /\ seen_entries' = add_to_seen_entries(new_entries, seen_entries)
             /\ steps' = Append(steps, Step("add_seen", "", 0))
             /\ handed' = IF seen_entries \subseteq seen_entries'
                          THEN handed ELSE SignaturesOf(new_entries)
             /\ max_added' = Max(max_added, Len(new_entries))
             /\ Proceed("insert_logs")
        ELSE /\ Raise(r, "add_seen")
             /\ UNCHANGED <<cacheVars, ghostVars>>
    /\ UNCHANGED <<browserVars, cycleVars, timeVars, dbVars>>
    /\ UNCHANGED apiVars

\* lines 138-139: db.insert_scraper_logs(all_logs); cycle_success = True
InsertLogs ==
    /\ pc = "insert_logs"
    /\ \E r \in Outcomes :
        IF r = "ok"
        THEN /\ db_logs' = db_logs \o all_logs
             /\ cycle_success' = TRUE
             /\ outcome' = "Success"
             /\ pc' = "post_cycle"
             /\ steps' = Append(steps, Step("insert_logs", "", 0))
             /\ UNCHANGED <<cycle, fault_kind, fault_at, raised, raised_at,
                            cache_at_start, db_at_start>>
        ELSE /\ Raise(r, "insert_logs")
             /\ UNCHANGED <<db_logs, cycle_success, steps>>
    /\ UNCHANGED <<handed, max_added>>
    /\ UNCHANGED <<db_news, insert_calls>>
    /\ UNCHANGED <<fetched, topics, idx, all_entries, all_logs, new_entries>>
    /\ UNCHANGED <<browserVars, cacheVars, timeVars>>
    /\ UNCHANGED apiVars

\* lines 141-143: except KeyboardInterrupt: log, break.
ExceptInterrupt ==
    /\ pc = "except_interrupt"
    /\ Proceed("finally")
    /\ UNCHANGED <<browserVars, cacheVars, cycleVars, timeVars, dbVars>>
    /\ UNCHANGED ghostVars
    /\ UNCHANGED apiVars

\* lines 145-147: except Exception: log the error and the traceback.
ExceptException ==
    /\ pc = "except_exception"
    /\ \E r \in {"ok", "KeyboardInterrupt"} :
        IF r = "ok"
        THEN /\ outcome' = "Failed"
             /\ pc' = "post_cycle"
             /\ UNCHANGED <<cycle, fault_kind, fault_at, raised, raised_at,
                            cache_at_start, db_at_start>>
        ELSE /\ Escape(r, "except_exception")
    /\ UNCHANGED <<browserVars, cacheVars, cycleVars, timeVars, dbVars>>
    /\ UNCHANGED ghostVars
    /\ UNCHANGED apiVars

\* lines 149-163: the outcome line, which formats elapsed, then elapsed and
\* sleep_time are computed and the loop sleeps or not.  Reading elapsed while
\* it is unbound raises UnboundLocalError, outside the inner try.
PostCycle ==
    /\ pc = "post_cycle"
    /\ \E r \in {"ok", "KeyboardInterrupt"} :
        IF r # "ok"
        THEN /\ Escape(r, "post_cycle")
             /\ UNCHANGED <<now, elapsed, reported, sleep_time, steps>>
        ELSE IF ~elapsed.bound
        THEN /\ Escape("UnboundLocalError", "post_cycle")
             /\ UNCHANGED <<now, elapsed, reported, sleep_time, steps>>
        ELSE /\ reported' = elapsed
             /\ elapsed' = Bound(now - cycle_start)
             /\ sleep_time' = Max(0, interval - (now - cycle_start))
             /\ now' = IF sleep_time' > 0 THEN now + sleep_time' ELSE now
             /\ steps' = IF sleep_time' > 0
                         THEN steps \o <<Step("timing", "", 0), Step("sleep", "", 0)>>
                         ELSE Append(steps, Step("timing", "", 0))
             /\ Proceed("cycle_start")
    /\ UNCHANGED <<handed, max_added>>
    /\ UNCHANGED <<cycle_start, interval>>
    /\ UNCHANGED <<browserVars, cacheVars, cycleVars, dbVars>>
    /\ UNCHANGED apiVars

\* lines 165-166: finally: browser.close(), which takes the pages with it.
Finally ==
    /\ pc = "finally"
    /\ browser' = "closed"
    /\ close_count' = close_count + 1
    /\ open_pages' = 0
    /\ Proceed("done")
    /\ UNCHANGED pages_created
    /\ UNCHANGED <<cacheVars, cycleVars, timeVars, dbVars>>
    /\ UNCHANGED ghostVars
    /\ UNCHANGED apiVars

Next ==
    \/ Launch \/ NewContext \/ CycleStart \/ GetTopics \/ NewPage
    \/ ApplyStealth \/ Scrape \/ Dedup \/ InsertNews \/ AddToSeen
    \/ InsertLogs \/ ExceptInterrupt \/ ExceptException \/ PostCycle
    \/ Finally

Spec == Init /\ [][Next]_vars

\* ------------------------------------------------ the cache functions alone
\* The module state before any call: _seen_entries = set().
InitCache ==
    /\ pc = "h_dedup"
    /\ browser = "none" /\ close_count = 0 /\ open_pages = 0 /\ pages_created = 0
    /\ seen_entries = {} /\ seen_before = {} /\ last_added = <<>>
    /\ fetched = {} /\ topics = <<>> /\ idx = 1
    /\ all_entries = <<>> /\ all_logs = <<>> /\ new_entries = <<>>
    /\ cycle_success = FALSE
    /\ cycle_start = 0 /\ now = 0 /\ elapsed = Unbound /\ reported = Unbound
    /\ sleep_time = 0
    /\ interval = 0
    /\ db_news = <<>> /\ db_logs = <<>> /\ insert_calls = 0
    /\ cycle = 0 /\ outcome = "none"
    /\ fault_kind = "none" /\ fault_at = "none"
    /\ raised = "none" /\ raised_at = "none"
    /\ cache_at_start = {} /\ db_at_start = <<>>
    /\ steps = <<>> /\ handed = {} /\ max_added = 0
    /\ api_pc = "none" /\ listener = "idle" /\ pool = "open"
    /\ responses = <<>> /\ api_steps = <<>>

\* A filter that marks what it keeps as seen: _seen_entries.add(signature)
\* in place of seen.add(signature).
CallDedup_MarksSeen ==
    /\ pc = "h_dedup"
    /\ \E batch \in SeqsUpTo(EntryUniverse, MaxBatch) :
        /\ all_entries' = batch
        /\ new_entries' = dedup_entries(batch, seen_entries)
        /\ seen_entries' = seen_entries \cup SignaturesOf(new_entries')
    /\ pc' = "h_insert"
    /\ UNCHANGED <<seen_before, last_added, ghostVars>>
    /\ UNCHANGED <<fetched, topics, idx, all_logs, cycle_success>>
    /\ UNCHANGED <<cycle, outcome, fault_kind, fault_at, raised, raised_at,
                   cache_at_start, db_at_start>>
    /\ UNCHANGED <<browserVars, timeVars, dbVars>>
    /\ UNCHANGED apiVars

\* new_entries = _dedup_entries(all_entries), line 133, on any batch.
CallDedup ==
    /\ pc = "h_dedup"
    /\ \E batch \in SeqsUpTo(EntryUniverse, MaxBatch) :
        /\ all_entries' = batch
        /\ new_entries' = dedup_entries(batch, seen_entries)
    /\ pc' = "h_insert"
    /\ UNCHANGED ghostVars
    /\ UNCHANGED <<fetched, topics, idx, all_logs, cycle_success>>
    /\ UNCHANGED <<cycle, outcome, fault_kind, fault_at, raised, raised_at,
                   cache_at_start, db_at_start>>
    /\ UNCHANGED <<browserVars, cacheVars, timeVars, dbVars>>
    /\ UNCHANGED apiVars

\* db.insert_news_entries(new_entries), line 136: it returns, or it raises
\* and line 137 is skipped.  What storage holds is not kept here, only the
\* signatures handed over.  When the round ends its all_entries and
\* new_entries are dropped: lines 118 and 133 rebind them before any read.
CallInsert ==
    /\ pc = "h_insert"
    /\ \E r \in {"ok", "Exception"} :
        IF r = "ok"
        THEN /\ handed' = handed \cup SignaturesOf(new_entries)
             /\ pc' = "h_add"
             /\ UNCHANGED <<all_entries, new_entries>>
        ELSE /\ handed' = handed
             /\ all_entries' = <<>> /\ new_entries' = <<>>
             /\ pc' = "h_dedup"
    /\ UNCHANGED <<steps, max_added>>
    /\ UNCHANGED <<fetched, topics, idx, all_logs, cycle_success>>
    /\ UNCHANGED <<cycle, outcome, fault_kind, fault_at, raised, raised_at,
                   cache_at_start, db_at_start>>
    /\ UNCHANGED <<browserVars, cacheVars, timeVars, dbVars>>
    /\ UNCHANGED apiVars

\* _add_to_seen_entries(new_entries), line 137, on the batch just filtered.
CallAddToSeen ==
    /\ pc = "h_add"
    /\ seen_before' = seen_entries
    /\ last_added' = new_entries
    /\ seen_entries' = add_to_seen_entries(new_entries, seen_entries)
    /\ handed' = IF seen_entries \subseteq seen_entries'
                 THEN handed ELSE SignaturesOf(new_entries)
    /\ max_added' = Max(max_added, Len(new_entries))
    /\ all_entries' = <<>> /\ new_entries' = <<>>
    /\ pc' = "h_dedup"
    /\ UNCHANGED steps
    /\ UNCHANGED <<fetched, topics, idx, all_logs, cycle_success>>
    /\ UNCHANGED <<cycle, outcome, fault_kind, fault_at, raised, raised_at,
                   cache_at_start, db_at_start>>
    /\ UNCHANGED <<browserVars, timeVars, dbVars>>
    /\ UNCHANGED apiVars

NextCache == CallDedup \/ CallInsert \/ CallAddToSeen

SpecCache == InitCache /\ [][NextCache]_vars

\* --------------------------------------------------- the API application
\* Requests the application serves while the model runs.
MaxRequests == 3

\* What a route of the application can raise into its exception handlers.
RouteExceptions == {"TopicStreamsException", "RequestValidationError", "Exception"}

\* The status code the exception handlers answer with.
ExceptionHandlerStatus(exc) ==
    CASE exc = "TopicStreamsException" -> 400
      [] exc = "RequestValidationError" -> 422
      [] OTHER -> 500

\* read_root(): the index page when it is there, 404 otherwise.
ReadRootStatus(index_exists) == IF index_exists THEN 200 ELSE 404

\* The listener once start_listener() has returned, once stop_listener() has
\* been called, and once the awaited stop_listener() has completed; the pool
\* once close_pool() has returned.
start_listener(l) == "running"
stop_listener_called(l) == IF l = "running" THEN "stopping" ELSE l
stop_listener(l) == "stopped"
close_pool(p) == "closed"

\* The process before the server enters the lifespan context.
InitApi ==
    /\ pc = "launch"
    /\ browser = "none" /\ close_count = 0 /\ open_pages = 0 /\ pages_created = 0
    /\ seen_entries = {} /\ seen_before = {} /\ last_added = <<>>
    /\ fetched = {} /\ topics = <<>> /\ idx = 1
    /\ all_entries = <<>> /\ all_logs = <<>> /\ new_entries = <<>>
    /\ cycle_success = FALSE
    /\ cycle_start = 0 /\ now = 0 /\ elapsed = Unbound /\ reported = Unbound
    /\ sleep_time = 0
    /\ interval = 0
    /\ db_news = <<>> /\ db_logs = <<>> /\ insert_calls = 0
    /\ cycle = 0 /\ outcome = "none"
    /\ fault_kind = "none" /\ fault_at = "none"
    /\ raised = "none" /\ raised_at = "none"
    /\ cache_at_start = {} /\ db_at_start = <<>>
    /\ steps = <<>> /\ handed = {} /\ max_added = 0
    /\ api_pc = "start_listener" /\ listener = "idle" /\ pool = "open"
    /\ responses = <<>> /\ api_steps = <<>>

\* line 34: websocket_manager.start_listener(), a plain call. When it raises
\* the context is never entered and the application does not start.
StartListener ==
    /\ api_pc = "start_listener"
    /\ \E r \in {"ok", "Exception"} :
        IF r = "ok"
        THEN /\ listener' = start_listener(listener)
             /\ api_steps' = Append(api_steps, "start_listener")
             /\ api_pc' = "yield"
        ELSE /\ \E l \in {listener, start_listener(listener)} : listener' = l
             /\ api_pc' = "failed"
             /\ UNCHANGED api_steps
    /\ UNCHANGED <<pool, responses>>
    /\ UNCHANGED mainVars

\* line 35: yield hands control to the server, which now accepts requests.
Yield ==
    /\ api_pc = "yield"
    /\ api_pc' = "serving"
    /\ api_steps' = Append(api_steps, "yield")
    /\ UNCHANGED <<listener, pool, responses>>
    /\ UNCHANGED mainVars

\* lines 74-83: GET / while the application serves.
ReadRoot ==
    /\ api_pc = "serving"
    /\ Len(responses) < MaxRequests
    /\ \E index_exists \in BOOLEAN :
        responses' = Append(responses, ReadRootStatus(index_exists))
    /\ UNCHANGED <<api_pc, listener, pool, api_steps>>
    /\ UNCHANGED mainVars

\* lines 88-127: a route raised and one of the three handlers answers.
ExceptionHandler ==
    /\ api_pc = "serving"
    /\ Len(responses) < MaxRequests
    /\ \E exc \in RouteExceptions :
        responses' = Append(responses, ExceptionHandlerStatus(exc))
    /\ UNCHANGED <<api_pc, listener, pool, api_steps>>
    /\ UNCHANGED mainVars

\* line 35 on shutdown: the server leaves the context and lifespan() resumes
\* after the yield, or the server throws into the yield and lifespan(), which
\* has no try around it, ends there.
Resume ==
    /\ api_pc = "serving"
    /\ \E r \in {"ok", "Exception"} :
        api_pc' = IF r = "ok" THEN "stop_listener" ELSE "failed"
    /\ UNCHANGED <<listener, pool, responses, api_steps>>
    /\ UNCHANGED mainVars

\* Line 36 without the await: the stop is started and lifespan() moves on.
StopListenerCall_NotAwaited ==
    /\ api_pc = "stop_listener"
    /\ listener' = stop_listener_called(listener)
    /\ api_pc' = "close_pool"
    /\ UNCHANGED <<pool, responses, api_steps>>
    /\ UNCHANGED mainVars

\* line 36: websocket_manager.stop_listener() is called and lifespan() is
\* suspended on its await.
StopListenerCall ==
    /\ api_pc = "stop_listener"
    /\ listener' = stop_listener_called(listener)
    /\ api_pc' = "await_stop_listener"
    /\ UNCHANGED <<pool, responses, api_steps>>
    /\ UNCHANGED mainVars

\* line 36: the awaited stop_listener() completes, or raises (or the task is
\* cancelled) and line 37 is not reached.
StopListenerDone ==
    /\ api_pc = "await_stop_listener"
    /\ \E r \in {"ok", "Exception"} :
        IF r = "ok"
        THEN /\ listener' = stop_listener(listener)
             /\ api_steps' = Append(api_steps, "stop_listener")
             /\ api_pc' = "close_pool"
        ELSE /\ \E l \in {listener, stop_listener(listener)} : listener' = l
             /\ api_pc' = "failed"
             /\ UNCHANGED api_steps
    /\ UNCHANGED <<pool, responses>>
    /\ UNCHANGED mainVars

\* line 37: close_pool().
ClosePool ==
    /\ api_pc = "close_pool"
    /\ \E r \in {"ok", "Exception"} :
        IF r = "ok"
        THEN /\ pool' = close_pool(pool)
             /\ api_steps' = Append(api_steps, "close_pool")
             /\ api_pc' = "done"
        ELSE /\ \E p \in {pool, close_pool(pool)} : pool' = p
             /\ api_pc' = "failed"
             /\ UNCHANGED api_steps
    /\ UNCHANGED <<listener, responses>>
    /\ UNCHANGED mainVars

NextApi ==
    \/ StartListener \/ Yield \/ ReadRoot \/ ExceptionHandler \/ Resume
    \/ StopListenerCall \/ StopListenerDone \/ ClosePool

SpecApi == InitApi /\ [][NextApi]_vars

\* ================================================================== claims
TopicSteps == {"new_page", "stealth", "scrape"}

\* Steps of the loop outside the inner try (lines 112, 146-147, 149-163).
RunningSteps == {"cycle_start", "except_exception", "post_cycle"}

\* C1: an ordinary exception inside a cycle never terminates the process:
\* after a cycle classified Failed, main() is left only by an operator
\* interrupt.
C1_FailedCycleNeverTerminates ==
    (outcome = "Failed" /\ pc \in {"finally", "done"})
        => (fault_kind = "KeyboardInterrupt" \/ raised = "KeyboardInterrupt")

\* C2: when an exception is raised while a topic is processed (page creation,
\* stealth patching, extraction), no insert_news_entries call is made in that
\* cycle, nothing is persisted and the cache is what it was at cycle start.
C2_TopicFailureDiscardsCycle ==
    (fault_kind = "Exception" /\ fault_at \in TopicSteps)
        => /\ insert_calls = 0
           /\ db_news = db_at_start
           /\ seen_entries = cache_at_start
           /\ pc \in {"except_exception", "post_cycle", "finally", "done"}

\* The second of three topics failed in extraction, after the first one had
\* delivered entries, and the cycle has been classified Failed.
C2_Witness ==
    /\ fault_kind = "Exception" /\ fault_at = "scrape"
    /\ Len(topics) = 3 /\ idx = 2
    /\ all_entries # <<>>
    /\ outcome = "Failed" /\ pc = "post_cycle"

\* C3 as stated: a cycle classified Failed has made no insert_news_entries
\* call that returned and has not changed the cache, whichever step raised.
C3_FailedCycleKeepsNothing ==
    outcome = "Failed" => (insert_calls = 0 /\ seen_entries = cache_at_start)

\* C3 as amended: a cycle classified Failed whose exception was raised before
\* insert_news_entries returned has persisted nothing and left the cache
\* alone; when insert_scraper_logs raised, the filtered batch has been
\* persisted and recorded in the cache.
C3_FailedBeforeInsertKeepsNothing ==
    outcome = "Failed" =>
        IF fault_at = "insert_logs"
        THEN /\ insert_calls = 1
             /\ db_news = db_at_start \o new_entries
             /\ \A i \in 1..Len(new_entries) :
                    <<new_entries[i].topic, new_entries[i].title,
                      new_entries[i].source>> \in seen_entries
        ELSE /\ insert_calls = 0
             /\ db_news = db_at_start
             /\ seen_entries = cache_at_start

\* insert_news_entries itself raised on a non-empty filtered batch.
C3_Witness ==
    /\ outcome = "Failed" /\ fault_at = "insert"
    /\ new_entries # <<>>
    /\ insert_calls = 0 /\ seen_entries = cache_at_start

\* Positions of the batch that are new: the (topic, title, source) triple is
\* not in the cache and does not occur at an earlier position.
NewPositions(batch, cache) ==
    {i \in 1..Len(batch) :
        /\ <<batch[i].topic, batch[i].title, batch[i].source>> \notin cache
        /\ \A j \in 1..(i - 1) :
            ~(/\ batch[j].topic = batch[i].topic
              /\ batch[j].title = batch[i].title
              /\ batch[j].source = batch[i].source)}

\* C4: _dedup_entries returns exactly the entries at the new positions of the
\* batch, in the order of the batch; identity is the triple alone.
C4_DedupIsFirstNewOccurrences ==
    pc \in {"h_insert", "h_add"} =>
        LET K == NewPositions(all_entries, seen_entries) IN
        /\ Len(new_entries) = Cardinality(K)
        /\ \A i \in K :
            new_entries[Cardinality({j \in K : j <= i})] = all_entries[i]

\* A batch with two entries that differ in the payload only, of which the
\* first is kept, next to an entry dropped because the cache holds it.
C4_Witness ==
    /\ pc = "h_add"
    /\ Len(all_entries) = 3
    /\ \E i, j \in 1..3 :
        /\ i < j
        /\ Signature(all_entries[i]) = Signature(all_entries[j])
        /\ all_entries[i].link # all_entries[j].link
        /\ new_entries = <<all_entries[i]>>
    /\ \E k \in 1..3 : Signature(all_entries[k]) \in seen_entries

\* C5: _add_to_seen_entries called while the cache is larger than the bound
\* leaves exactly the signatures of the batch, as many as the batch has
\* entries; called while the cache is at most the bound it adds to it.
C5_ClearOnlyAboveBound ==
    pc = "h_dedup" =>
        IF Cardinality(seen_before) > MAX_SEEN_ENTRIES
        THEN /\ seen_entries = SignaturesOf(last_added)
             /\ Cardinality(seen_entries) = Len(last_added)
        ELSE seen_entries = seen_before \cup SignaturesOf(last_added)

\* A non-empty batch was recorded on a cache larger than the bound.
C5_Witness ==
    /\ pc = "h_dedup"
    /\ Cardinality(seen_before) > MAX_SEEN_ENTRIES
    /\ last_added # <<>>
    /\ Cardinality(seen_entries) = Len(last_added)

C7_DelayThenNextCycle ==
    [][(pc = "post_cycle" /\ raised' # "KeyboardInterrupt")
        => /\ pc' = "cycle_start"
           /\ sleep_time' = Max(0, interval - (now - cycle_start))
           /\ now' = now + sleep_time']_vars

\* An operator interrupt was raised while the loop was running.
InterruptedWhileRunning ==
    \/ fault_kind = "KeyboardInterrupt"
    \/ raised = "KeyboardInterrupt" /\ raised_at \in RunningSteps

\* C8: an operator interrupt raised at any point of the running loop ends
\* the process with the browser closed and no exception leaving main().
C8_InterruptExitsCleanly ==
    (pc = "done" /\ InterruptedWhileRunning)
        => (browser = "closed" /\ raised = "none")

C9_CloseOnce ==
    /\ close_count <= 1
    /\ (browser = "closed") = (close_count = 1)
    /\ close_count = 1 => pc = "done"
    /\ (pc = "done" /\ raised_at # "launch") => close_count = 1

\* C9: once the browser has been launched, browser.close() is called exactly
\* once however main() leaves the loop, and after it no page is created and
\* no cycle step or storage call happens.
C9_BrowserClosedExactlyOnce ==
    /\ []C9_CloseOnce
    /\ [][browser = "closed" =>
            UNCHANGED <<pages_created, open_pages, cycle, idx, db_news,
                        db_logs, seen_entries, pc>>]_vars

\* An exception escaped the loop and the browser was closed once on the way.
C9_Witness ==
    /\ pc = "done"
    /\ raised = "UnboundLocalError"
    /\ browser = "closed" /\ close_count = 1

\* C10: every page is closed on every exit path of its topic's processing:
\* at most one page is open, and none outside the processing of a topic.
C10_PagesClosedOnEveryPath ==
    /\ open_pages <= 1
    /\ pc \notin {"stealth", "scrape"} => open_pages = 0

\* C11: a failure of the browser launch or of the context creation is fatal:
\* no cycle is started (no topic fetch, no page, no insert), the exception
\* leaves main(), and a browser that had been launched is closed on the way.
C11_SetupFailureIsFatal ==
    raised_at \in {"launch", "new_context"} =>
        /\ raised \in {"Exception", "KeyboardInterrupt"}
        /\ pc \in {"finally", "done"}
        /\ cycle = 0 /\ fetched = {} /\ topics = <<>>
        /\ pages_created = 0
        /\ db_news = <<>> /\ db_logs = <<>> /\ seen_entries = {}
        /\ raised_at = "launch" => (browser = "none" /\ pc = "done")
        /\ (raised_at = "new_context" /\ pc = "done")
            => (browser = "closed" /\ close_count = 1)

\* The context creation raised after the launch, and the browser was closed.
C11_Witness ==
    /\ raised = "Exception" /\ raised_at = "new_context"
    /\ pc = "done" /\ browser = "closed" /\ cycle = 0

\* Every order in which the topics of S can be visited, each once.
AllOrders(S) ==
    {s \in [1..Cardinality(S) -> S] :
        \A i, j \in 1..Cardinality(S) : i # j => s[i] # s[j]}

\* C12: in every cycle the topic list is fetched first and visited in a
\* permutation of it; a cycle that succeeds has created exactly one page and
\* made exactly one extraction call, with the configured page budget, for each
\* fetched topic in that order; and at the fetch every order of every topic
\* list is a possible outcome.
C12_EachTopicOnceInAnyOrder ==
    /\ steps # <<>> =>
        /\ steps[1] = Step("get_topics", "", 0)
        /\ \A n \in 2..Len(steps) : steps[n].op # "get_topics"
        /\ Len(topics) = Cardinality(fetched)
        /\ Range(topics) = fetched
    /\ outcome = "Success" =>
        /\ Len(steps) = 2 * Len(topics) + 5
        /\ \A k \in 1..Len(topics) :
            /\ steps[2 * k] = Step("new_page", topics[k], 0)
            /\ steps[2 * k + 1] = Step("scrape", topics[k], max_pages)
    /\ pc = "get_topics" =>
        \A got \in SUBSET TopicUniverse : \A order \in AllOrders(got) :
            ENABLED (GetTopics /\ fetched' = got /\ topics' = order)

\* A cycle over three topics succeeded in an order other than the sorted one.
C12_Witness ==
    /\ outcome = "Success" /\ pc = "post_cycle"
    /\ topics = <<"t3", "t1", "t2">>
    /\ Len(steps) = 11

\* The calls of this cycle that returned.
StepOps == {steps[n].op : n \in 1..Len(steps)}

\* Place of a call in the order of a cycle (lines 114-139, then 154-158).
Rank(op) ==
    CASE op = "get_topics" -> 1
      [] op \in {"new_page", "scrape"} -> 2
      [] op = "dedup" -> 3
      [] op = "insert" -> 4
      [] op = "add_seen" -> 5
      [] op = "insert_logs" -> 6
      [] OTHER -> 7

\* The calls of a cycle happen in the order fetch, scrape all topics, filter,
\* insert, record, insert logs, each of the last four at most once and none
\* before the one it follows; success is marked after the logs are inserted;
\* the batch recorded is the batch inserted; the cache changes only in the
\* record call.
C13_CycleOrder ==
    /\ \A m, n \in 1..Len(steps) :
        m < n => \/ Rank(steps[m].op) < Rank(steps[n].op)
                 \/ Rank(steps[m].op) = 2 /\ Rank(steps[n].op) = 2
    /\ "dedup" \in StepOps => "get_topics" \in StepOps
    /\ "insert" \in StepOps => "dedup" \in StepOps
    /\ "add_seen" \in StepOps => "insert" \in StepOps
    /\ "insert_logs" \in StepOps => "add_seen" \in StepOps
    /\ cycle_success => "insert_logs" \in StepOps
    /\ "add_seen" \in StepOps =>
        /\ last_added = new_entries
        /\ db_news = db_at_start \o last_added
    /\ (cycle >= 1 /\ seen_entries # cache_at_start) => "add_seen" \in StepOps

\* C13 as stated: ... and _add_to_seen_entries is called if and only if the
\* insert_news_entries call of the cycle returned: once the insert has
\* returned and control has left line 137, the batch has been recorded.
C13_RecordSeenIffInsertReturned ==
    /\ C13_CycleOrder
    /\ ("insert" \in StepOps /\ pc # "add_seen") => "add_seen" \in StepOps

\* C13 as amended: the same, unless an operator interrupt arrives between
\* the return of insert_news_entries and the call of line 137.
C13_RecordSeenIffInsertReturnedUninterrupted ==
    /\ C13_CycleOrder
    /\ ("insert" \in StepOps /\ pc # "add_seen" /\ fault_at # "add_seen")
        => "add_seen" \in StepOps
    /\ fault_at = "add_seen" => fault_kind = "KeyboardInterrupt"

\* A cycle recorded a batch from which duplicates had been filtered, and
\* failed afterwards.
C13_Witness ==
    /\ "add_seen" \in StepOps
    /\ outcome = "Failed" /\ fault_at = "insert_logs"
    /\ Len(new_entries) >= 2 /\ Len(all_entries) > Len(new_entries)

\* C14: a signature handed to an insert_news_entries call that returned is
\* not handed to insert_news_entries again while the cache has not been
\* cleared since, and no two entries of one call share a signature.
C14_NoSignatureHandedTwice ==
    pc = "h_insert" =>
        /\ \A i \in 1..Len(new_entries) :
            <<new_entries[i].topic, new_entries[i].title,
              new_entries[i].source>> \notin handed
        /\ \A i, j \in 1..Len(new_entries) :
            i # j => \/ new_entries[i].topic # new_entries[j].topic
                     \/ new_entries[i].title # new_entries[j].title
                     \/ new_entries[i].source # new_entries[j].source

\* A later round scraped a signature handed over before together with a new
\* one, and only the new one is about to be handed over.
C14_Witness ==
    /\ pc = "h_insert"
    /\ \E i \in 1..Len(all_entries) : Signature(all_entries[i]) \in handed
    /\ Len(new_entries) = 1
    /\ Signature(new_entries[1]) \notin handed

\* C15: _dedup_entries leaves the cache as it found it, and filtering its own
\* result against the same cache gives that result again.
C15_DedupIsPure ==
    /\ [](pc = "h_insert" =>
            dedup_entries(new_entries, seen_entries) = new_entries)
    /\ [][pc = "h_dedup" =>
            /\ seen_entries' = seen_entries
            /\ pc' = "h_insert" => \A i \in 1..Len(new_entries') :
                \E j \in 1..Len(all_entries') : new_entries'[i] = all_entries'[j]]_vars

\* The filter ran on a non-empty cache, dropped something and kept something.
C15_Witness ==
    /\ pc = "h_insert"
    /\ seen_entries # {}
    /\ Len(new_entries) >= 1
    /\ Len(new_entries) < Len(all_entries)
    /\ seen_entries = seen_before \cup SignaturesOf(last_added)

\* The controller's states: Running is the loop of lines 111-163,
\* ShuttingDown the finally of line 165, Stopped the end of main().
RunningPcs ==
    {"cycle_start", "get_topics", "new_page", "stealth", "scrape", "dedup",
     "insert", "add_seen", "insert_logs", "except_interrupt",
     "except_exception", "post_cycle"}

\* C16: Running is left only for ShuttingDown and only by an operator
\* interrupt caught inside a cycle, without a timing computation or a sleep
\* and with no exception in flight; ShuttingDown closes the browser and
\* leads to Stopped; in Stopped nothing happens any more.
C16_OnlyCaughtInterruptLeavesRunning ==
    [][/\ (pc \in RunningPcs /\ pc' \notin RunningPcs) =>
            /\ pc = "except_interrupt" /\ pc' = "finally"
            /\ raised' = "none"
            /\ \A n \in 1..Len(steps') : steps'[n].op \notin {"timing", "sleep"}
       /\ pc = "finally" => (pc' = "done" /\ browser' = "closed")
       /\ pc = "done" => UNCHANGED vars]_vars

\* C17: the outcome line of a cycle prints the elapsed time of that cycle,
\* now - cycle_start, in the first cycle as in every other.
C17_OutcomeLineReportsOwnCycle ==
    [][(pc = "post_cycle" /\ raised' # "KeyboardInterrupt")
        => reported' = Bound(now - cycle_start)]_vars

\* C18: the cache holds at most the bound plus the size of the largest batch
\* ever recorded, because it held at most the bound when the last batch
\* started being added.
C18_CacheWithinBoundPlusLargestBatch ==
    /\ Cardinality(seen_entries) <= MAX_SEEN_ENTRIES + max_added
    /\ Cardinality(seen_entries \ SignaturesOf(last_added)) <= MAX_SEEN_ENTRIES

\* The limit is attained: a cache at the bound took a batch of the largest
\* size recorded so far, all of it new.
C18_Witness ==
    /\ max_added >= 2
    /\ Cardinality(seen_entries) = MAX_SEEN_ENTRIES + max_added

\* C19: every signature in the cache is the signature of an entry handed to
\* an insert_news_entries call that returned; the cache starts empty and only
\* line 137, after such a call, adds to it, and only signatures of the batch.
C19_CacheHoldsOnlyInserted ==
    /\ [](\A sig \in seen_entries : \E i \in 1..Len(db_news) :
            sig = <<db_news[i].topic, db_news[i].title, db_news[i].source>>)
    /\ [][seen_entries' # seen_entries =>
            /\ pc = "add_seen" /\ insert_calls = 1
            /\ \A sig \in seen_entries' \ seen_entries :
                \E i \in 1..Len(new_entries) :
                    sig = <<new_entries[i].topic, new_entries[i].title,
                            new_entries[i].source>>]_vars

\* A cycle succeeded and left the signatures of its batch in the cache.
C19_Witness ==
    /\ outcome = "Success" /\ pc = "post_cycle"
    /\ Cardinality(seen_entries) >= 2
    /\ Len(db_news) = Cardinality(seen_entries)

\* C20: the listener is started before the application serves anything; on
\* shutdown the pool is closed only after the awaited stop of the listener has
\* completed, so the pool is never closed while the listener is running.
C20_ListenerOutlivesServingPoolOutlivesListener ==
    /\ []((api_pc = "serving" \/ responses # <<>>) =>
            (api_steps # <<>> /\ api_steps[1] = "start_listener"))
    /\ [][responses' # responses => listener = "running"]_vars
    /\ [](pool = "closed" => listener = "stopped")
    /\ [][pool' # pool =>
            /\ listener = "stopped"
            /\ api_steps # <<>>
            /\ api_steps[Len(api_steps)] = "stop_listener"]_vars

\* The application served requests, was shut down, and closed the pool.
C20_Witness ==
    /\ api_pc = "done" /\ pool = "closed"
    /\ Len(responses) >= 1
    /\ api_steps = <<"start_listener", "yield", "stop_listener", "close_pool">>

====
